---- MODULE Spec2Model ----
(***************************************************************************)
(* hgl-rs (src/lib.rs): owned wrappers (Shader, Program, Vbo, Vao) around  *)
(* OpenGL object names, and the status / info-log retrieval protocol       *)
(* (get_info_log) used by Shader::compile and Program::link.               *)
(*                                                                         *)
(* The graphics API is the environment.  Its answers (compile and link     *)
(* status, reported log length, attribute location, validity of the log    *)
(* text) are inputs chosen with \E.  The model records every API call a    *)
(* library operation issues (calls), the object names the API has handed   *)
(* out (gl_objects), the number of delete calls each name has received     *)
(* (releases) and the name most recently passed to each bind call (bound). *)
(***************************************************************************)
EXTENDS Integers, Sequences, FiniteSets

VARIABLES
    ndebug,      \* build configuration: TRUE when cfg(ndebug) is set
    gl_objects,  \* API side: name -> "free" | kind of object | "deleted"
    next_name,   \* API side: next fresh object name
    releases,    \* name -> number of delete calls issued for that name
    bound,       \* name last passed to UseProgram / BindBuffer / BindVertexArray
    wrappers,    \* the live wrapper values (Shader, Program, Vbo, Vao)
    next_obj,    \* identity of the next wrapper value constructed
    aliases,     \* wrapper values constructed by Shader::from_name
    wrapped,     \* names that have been held by some wrapper value
    failed,      \* the task has failed (fail!, expect) or crashed
    calls,       \* API calls issued by the most recent operation, in order
    last         \* the most recent operation: inputs, API answers, result

vars == <<ndebug, gl_objects, next_name, releases, bound, wrappers, next_obj,
          aliases, wrapped, failed, calls, last>>

----------------------------------------------------------------------------
(* Bounds *)

MaxHandles == 3     \* object names the API hands out
MaxAliases == 1     \* wrapper values constructed by Shader::from_name
MaxLogLen  == 3     \* largest INFO_LOG_LENGTH the API reports
MaxSlice   == 2     \* longest &[Shader] passed to Program::link
MaxData    == 1     \* longest data slice passed to Vbo::from_data
WordBits   == 8     \* width of uint / GLuint, scaled down

Names == 0 .. MaxHandles

Modulus == 2 ^ WordBits

\* uint subtraction: wraps around, as unchecked machine arithmetic does
USub(a, b) == (a - b + Modulus) % Modulus

\* `x as GLuint` for a GLint x
AsGLuint(x) == (x + Modulus) % Modulus

Min(a, b) == IF a < b THEN a ELSE b

----------------------------------------------------------------------------
(* Enumerations *)

ShaderType == {"VertexShader", "FragmentShader"}
VboUsage   == {"StaticDraw", "DynamicDraw", "StreamDraw"}
Primitive  == {"Points", "Lines", "LineStrip", "LineLoop", "Triangles",
               "TriangleStrip", "TriangleFan"}

ShaderType_to_glenum(t) ==
    CASE t = "VertexShader"   -> "gl::VERTEX_SHADER"
      [] t = "FragmentShader" -> "gl::FRAGMENT_SHADER"

VboUsage_to_glenum(u) ==
    CASE u = "StaticDraw"  -> "gl::STATIC_DRAW"
      [] u = "DynamicDraw" -> "gl::DYNAMIC_DRAW"
      [] u = "StreamDraw"  -> "gl::STREAM_DRAW"

Primitive_to_glenum(p) ==
    CASE p = "Points"        -> "gl::POINTS"
      [] p = "Lines"         -> "gl::LINES"
      [] p = "LineStrip"     -> "gl::LINE_STRIP"
      [] p = "LineLoop"      -> "gl::LINE_LOOP"
      [] p = "Triangles"     -> "gl::TRIANGLES"
      [] p = "TriangleStrip" -> "gl::TRIANGLE_STRIP"
      [] p = "TriangleFan"   -> "gl::TRIANGLE_FAN"

----------------------------------------------------------------------------
(* Values *)

\* one API call: entry point and arguments
Call(f, a) == [fn |-> f, args |-> a]

\* wrapper values; type_ is "-" for the kinds that have no such field
Shader(id, name, type_) == [id |-> id, kind |-> "Shader", name |-> name, type_ |-> type_]
Program(id, name)       == [id |-> id, kind |-> "Program", name |-> name, type_ |-> "-"]
Vbo(id, name)           == [id |-> id, kind |-> "Vbo", name |-> name, type_ |-> "-"]
Vao(id, name)           == [id |-> id, kind |-> "Vao", name |-> name, type_ |-> "-"]

Live(kind) == {w \in wrappers : w.kind = kind}

\* record of the most recent operation; args holds the inputs and API answers
\* that the other fields do not, buf the log vector's capacity and the bytes
\* the API wrote into it
Op(op, self, handle, result) ==
    [op |-> op, self |-> self, handle |-> handle, result |-> result,
     status |-> TRUE, loglen |-> 0, textlen |-> 0, utf8 |-> TRUE,
     shaders |-> <<>>, before |-> bound,
     args |-> <<>>, buf |-> [cap |-> 0, wrote |-> 0]]

----------------------------------------------------------------------------
(* Status / log protocol *)

\* get_info_log without the `if len == 0 { return Some(~[]) }` early return
get_info_log_no_zero_check(shader, get, info, status, api_status, api_len) ==
    LET q_status == Call(get, <<shader, status>>)
        q_length == Call(get, <<shader, "gl::INFO_LOG_LENGTH">>)
        cap      == USub(api_len, 1)
        bufSize  == api_len
        written  == IF api_len = 0 THEN 0 ELSE Min(api_len - 1, bufSize - 1)
        q_text   == Call(info, <<shader, api_len>>)
    IN  IF api_status
        THEN [ret |-> "None", len |-> 0, cap |-> 0, wrote |-> 0,
              calls |-> <<q_status>>]
        ELSE [ret |-> "Some", len |-> USub(written, 1), cap |-> cap,
              wrote |-> IF api_len = 0 THEN 0 ELSE written + 1,
              calls |-> <<q_status, q_length, q_text>>]

\* get_info_log(shader, get, info, status).  api_status and api_len are the
\* API's answers to the two `get` queries: the status flag, and
\* INFO_LOG_LENGTH (the log's characters plus the trailing NUL, 0 for no
\* log).  `info` is called with bufSize = len; the API writes at most
\* bufSize - 1 characters and a NUL, and stores the number of characters
\* written (NUL excluded) in its length out-parameter, which is `len` again.
\*   ret   "None" | "Some"
\*   len   length of the returned vector (the argument of set_len)
\*   cap   capacity the vector was allocated with
\*   wrote bytes the API wrote into the vector's buffer
\*   calls the API calls issued, in order
get_info_log(shader, get, info, status, api_status, api_len) ==
    LET q_status == Call(get, <<shader, status>>)
        q_length == Call(get, <<shader, "gl::INFO_LOG_LENGTH">>)
        cap      == USub(api_len, 1)
        bufSize  == api_len
        written  == Min(api_len - 1, bufSize - 1)
        q_text   == Call(info, <<shader, api_len>>)
    IN  IF api_status
        THEN [ret |-> "None", len |-> 0, cap |-> 0, wrote |-> 0,
              calls |-> <<q_status>>]
        ELSE IF api_len = 0
        THEN [ret |-> "Some", len |-> 0, cap |-> 0, wrote |-> 0,
              calls |-> <<q_status, q_length>>]
        ELSE [ret |-> "Some", len |-> USub(written, 1), cap |-> cap,
              wrote |-> written + 1,
              calls |-> <<q_status, q_length, q_text>>]

\* The vector get_info_log returned is not backed by initialised memory of
\* its own: the API wrote past its capacity, or set_len exceeded what was
\* written.  What the build does from there on is not defined.
Undefined(r) == r.ret = "Some" /\ (r.wrote > r.cap \/ r.len > r.wrote)

\* Some(s) => Err(from_utf8_owned(s).expect(..)), None => Ok(..)
\* utf8: the returned bytes are valid UTF-8; crash: undefined behaviour
\* ended the task instead of letting it continue.
LogResult(r, utf8, crash) ==
    IF r.ret = "None" THEN "Ok"
    ELSE IF crash \/ (r.len > 0 /\ ~utf8) THEN "Fatal"
    ELSE "Err"

----------------------------------------------------------------------------
(* API side *)

IsShader(name) == name \in DOMAIN gl_objects /\ gl_objects[name] = "shader"

\* glCreateShader / glCreateProgram / glGenBuffers / glGenVertexArrays
Create(kind) == [gl_objects EXCEPT ![next_name] = kind]

\* glDeleteShader / glDeleteProgram / glDeleteBuffers / glDeleteVertexArrays
Delete(kind, name) ==
    IF name \in DOMAIN gl_objects /\ gl_objects[name] = kind
    THEN [gl_objects EXCEPT ![name] = "deleted"]
    ELSE gl_objects

----------------------------------------------------------------------------
Init ==
    /\ ndebug \in BOOLEAN
    /\ gl_objects = [n \in 1 .. MaxHandles |-> "free"]
    /\ next_name = 1
    /\ releases = [n \in Names |-> 0]
    /\ bound = [program |-> 0, array_buffer |-> 0, vertex_array |-> 0]
    /\ wrappers = {}
    /\ next_obj = 1
    /\ aliases = 0
    /\ wrapped = {}
    /\ failed = FALSE
    /\ calls = <<>>
    /\ last = [op |-> "-", self |-> 0, handle |-> 0, result |-> "-",
               status |-> TRUE, loglen |-> 0, textlen |-> 0, utf8 |-> TRUE,
               shaders |-> <<>>,
               before |-> [program |-> 0, array_buffer |-> 0, vertex_array |-> 0],
               args |-> <<>>, buf |-> [cap |-> 0, wrote |-> 0]]

CanCreate == ~failed /\ next_name <= MaxHandles

----------------------------------------------------------------------------
(* Shader *)

Sources == {"void main() {}"}

\* Shader::from_name
from_name_calls(name) == IF ndebug THEN <<>> ELSE <<Call("gl::IsShader", <<name>>)>>

\* Shader::from_name with the check left out of a debug build too
from_name_never_fails(name) == FALSE

\* Shader::from_name ends in fail!("name is not a shader!")
from_name_fails(name) == ~ndebug /\ ~IsShader(name)

ShaderFromName(name, type_) ==
    /\ ~failed /\ aliases < MaxAliases
    /\ calls' = from_name_calls(name)
    /\ IF from_name_fails(name)
       THEN /\ failed' = TRUE
            /\ last' = Op("Shader::from_name", 0, name, "Fatal")
            /\ UNCHANGED <<wrappers, next_obj, aliases, wrapped>>
       ELSE /\ wrappers' = wrappers \cup {Shader(next_obj, name, type_)}
            /\ next_obj' = next_obj + 1
            /\ aliases' = aliases + 1
            /\ wrapped' = wrapped \cup {name}
            /\ last' = Op("Shader::from_name", next_obj, name, "Shader")
            /\ UNCHANGED failed
    /\ UNCHANGED <<ndebug, gl_objects, next_name, releases, bound>>

\* Shader::name
ShaderName(self) ==
    /\ ~failed
    /\ self \in Live("Shader")
    /\ calls' = <<>>
    /\ last' = Op("Shader::name", self.id, self.name, "name")
    /\ UNCHANGED <<ndebug, gl_objects, next_name, releases, bound, wrappers,
                   next_obj, aliases, wrapped, failed>>

\* Shader::compile, up to the status query
compile_calls(shader, source, gltype) ==
    << Call("gl::CreateShader", <<gltype>>),
       Call("gl::ShaderSource", <<shader, 1, source, Len(source)>>),
       Call("gl::CompileShader", <<shader>>) >>

\* Shader::compile
ShaderCompile(source, type_, api_status, api_len, utf8, crash) ==
    LET shader == next_name
        r      == get_info_log(shader, "gl::GetShaderiv", "gl::GetShaderInfoLog",
                               "gl::COMPILE_STATUS", api_status, api_len)
        res    == LogResult(r, utf8, crash)
    IN  /\ CanCreate
        /\ crash => Undefined(r)
        /\ gl_objects' = Create("shader")
        /\ next_name' = next_name + 1
        /\ calls' = compile_calls(shader, source, ShaderType_to_glenum(type_)) \o r.calls
        /\ last' = [Op("Shader::compile", IF res = "Ok" THEN next_obj ELSE 0, shader, res)
                      EXCEPT !.status = api_status,
                             !.loglen = IF api_status THEN 0 ELSE api_len,
                             !.textlen = r.len,
                             !.buf = [cap |-> r.cap, wrote |-> r.wrote],
                             !.utf8 = (r.len = 0 \/ utf8)]
        /\ failed' = (res = "Fatal")
        /\ IF res = "Ok"
           THEN /\ wrappers' = wrappers \cup {Shader(next_obj, shader, type_)}
                /\ next_obj' = next_obj + 1
                /\ wrapped' = wrapped \cup {shader}
           ELSE UNCHANGED <<wrappers, next_obj, wrapped>>
        /\ UNCHANGED <<ndebug, releases, bound, aliases>>

----------------------------------------------------------------------------
(* Program *)

\* the slices of distinct live Shaders a caller can pass to Program::link
ShaderSlices ==
    UNION { { sl \in [1 .. k -> Live("Shader")] :
                \A i, j \in 1 .. k : i # j => sl[i] # sl[j] } : k \in 0 .. MaxSlice }

\* Program::link attaching the shaders in reverse slice order
link_calls_reversed(program, shaders) ==
    << Call("gl::CreateProgram", <<>>) >>
    \o [i \in 1 .. Len(shaders) |->
          Call("gl::AttachShader", <<program, shaders[Len(shaders) + 1 - i].name>>)]
    \o << Call("gl::LinkProgram", <<program>>) >>

\* Program::link, up to the status query
link_calls(program, shaders) ==
    << Call("gl::CreateProgram", <<>>) >>
    \o [i \in 1 .. Len(shaders) |-> Call("gl::AttachShader", <<program, shaders[i].name>>)]
    \o << Call("gl::LinkProgram", <<program>>) >>

\* Program::link taking the Shaders of the slice away from the caller
link_wrappers_consuming(shaders, program) ==
    (wrappers \ {shaders[i] : i \in 1 .. Len(shaders)}) \cup {Program(next_obj, program)}

\* the live wrappers after a successful Program::link: `shaders` is borrowed
link_wrappers(shaders, program) == wrappers \cup {Program(next_obj, program)}

\* Program::link
ProgramLink(shaders, api_status, api_len, utf8, crash) ==
    LET program == next_name
        r       == get_info_log(program, "gl::GetProgramiv", "gl::GetProgramInfoLog",
                                "gl::LINK_STATUS", api_status, api_len)
        res     == LogResult(r, utf8, crash)
    IN  /\ CanCreate
        /\ crash => Undefined(r)
        /\ gl_objects' = Create("program")
        /\ next_name' = next_name + 1
        /\ calls' = link_calls(program, shaders) \o r.calls
        /\ last' = [Op("Program::link", IF res = "Ok" THEN next_obj ELSE 0, program, res)
                      EXCEPT !.status = api_status,
                             !.loglen = IF api_status THEN 0 ELSE api_len,
                             !.textlen = r.len,
                             !.buf = [cap |-> r.cap, wrote |-> r.wrote],
                             !.utf8 = (r.len = 0 \/ utf8),
                             !.shaders = [i \in 1 .. Len(shaders) |-> shaders[i].name],
                             !.args = [i \in 1 .. Len(shaders) |-> shaders[i].id]]
        /\ failed' = (res = "Fatal")
        /\ IF res = "Ok"
           THEN /\ wrappers' = link_wrappers(shaders, program)
                /\ next_obj' = next_obj + 1
                /\ wrapped' = wrapped \cup {program}
           ELSE UNCHANGED <<wrappers, next_obj, wrapped>>
        /\ UNCHANGED <<ndebug, releases, bound, aliases>>

\* binding state after Program::activate
Program_activate_bound(self) == [bound EXCEPT !.program = self.name]

\* Program::activate
ProgramActivate(self) ==
    /\ ~failed
    /\ self \in Live("Program")
    /\ calls' = << Call("gl::UseProgram", <<self.name>>) >>
    /\ bound' = Program_activate_bound(self)
    /\ last' = Op("Program::activate", self.id, self.name, "()")
    /\ UNCHANGED <<ndebug, gl_objects, next_name, releases, wrappers, next_obj,
                   aliases, wrapped, failed>>

ColorNumbers == {0}
FragNames    == {"out_color"}

\* Program::bind_frag
ProgramBindFrag(self, color_number, name) ==
    /\ ~failed
    /\ self \in Live("Program")
    /\ calls' = << Call("gl::BindFragDataLocation", <<self.name, color_number, name>>) >>
    /\ last' = Op("Program::bind_frag", self.id, self.name, "()")
    /\ UNCHANGED <<ndebug, gl_objects, next_name, releases, bound, wrappers,
                   next_obj, aliases, wrapped, failed>>

----------------------------------------------------------------------------
(* Vbo *)

EltSizes == {4}      \* size_of::<T>() of the element types tried

\* binding state after Vbo::from_data
Vbo_from_data_bound(vbo) == [bound EXCEPT !.array_buffer = vbo]

\* Vbo::from_data passing the element count as the byte size
from_data_calls_count_only(vbo, data_len, elt_size, usage) ==
    << Call("gl::GenBuffers", <<1>>),
       Call("gl::BindBuffer", <<"gl::ARRAY_BUFFER", vbo>>),
       Call("gl::BufferData", <<"gl::ARRAY_BUFFER", data_len,
                                VboUsage_to_glenum(usage)>>) >>

\* the API calls of Vbo::from_data
from_data_calls(vbo, data_len, elt_size, usage) ==
    << Call("gl::GenBuffers", <<1>>),
       Call("gl::BindBuffer", <<"gl::ARRAY_BUFFER", vbo>>),
       Call("gl::BufferData", <<"gl::ARRAY_BUFFER", data_len * elt_size,
                                VboUsage_to_glenum(usage)>>) >>

\* Vbo::from_data
VboFromData(data_len, elt_size, usage) ==
    LET vbo == next_name
    IN  /\ CanCreate
        /\ gl_objects' = Create("buffer")
        /\ next_name' = next_name + 1
        /\ calls' = from_data_calls(vbo, data_len, elt_size, usage)
        /\ bound' = Vbo_from_data_bound(vbo)
        /\ wrappers' = wrappers \cup {Vbo(next_obj, vbo)}
        /\ next_obj' = next_obj + 1
        /\ wrapped' = wrapped \cup {vbo}
        /\ last' = [Op("Vbo::from_data", next_obj, vbo, "Ok")
                      EXCEPT !.args = <<data_len, elt_size, usage>>]
        /\ UNCHANGED <<ndebug, releases, aliases, failed>>

\* binding state after Vbo::activate
Vbo_activate_bound(self) == [bound EXCEPT !.array_buffer = self.name]

\* Vbo::activate
VboActivate(self) ==
    /\ ~failed
    /\ self \in Live("Vbo")
    /\ calls' = << Call("gl::BindBuffer", <<"gl::ARRAY_BUFFER", self.name>>) >>
    /\ bound' = Vbo_activate_bound(self)
    /\ last' = Op("Vbo::activate", self.id, self.name, "()")
    /\ UNCHANGED <<ndebug, gl_objects, next_name, releases, wrappers, next_obj,
                   aliases, wrapped, failed>>

----------------------------------------------------------------------------
(* Vao *)

\* Vao::new
VaoNew ==
    LET vao == next_name
    IN  /\ CanCreate
        /\ gl_objects' = Create("vertex_array")
        /\ next_name' = next_name + 1
        /\ calls' = << Call("gl::GenVertexArrays", <<1>>) >>
        /\ wrappers' = wrappers \cup {Vao(next_obj, vao)}
        /\ next_obj' = next_obj + 1
        /\ wrapped' = wrapped \cup {vao}
        /\ last' = Op("Vao::new", next_obj, vao, "Vao")
        /\ UNCHANGED <<ndebug, releases, bound, aliases, failed>>

\* binding state after Vao::activate
Vao_activate_bound(self) == [bound EXCEPT !.vertex_array = self.name]

\* Vao::activate
VaoActivate(self) ==
    /\ ~failed
    /\ self \in Live("Vao")
    /\ calls' = << Call("gl::BindVertexArray", <<self.name>>) >>
    /\ bound' = Vao_activate_bound(self)
    /\ last' = Op("Vao::activate", self.id, self.name, "()")
    /\ UNCHANGED <<ndebug, gl_objects, next_name, releases, wrappers, next_obj,
                   aliases, wrapped, failed>>

AttribNames == {"position"}
Locations   == {-1, 0}   \* answers of GetAttribLocation; -1: not an active attribute
Elts        == {3}
Strides     == {20}
Offsets     == {12}

\* Vao::enable_attrib putting the previous vertex array binding back
Vao_enable_attrib_restores(self) == bound

\* binding state after Vao::enable_attrib: self.activate(), nothing restored
Vao_enable_attrib_bound(self) == Vao_activate_bound(self)

\* Vao::enable_attrib returning early when the name does not resolve
enable_attrib_calls_checked(self, program, name, elts, stride, offset, pos) ==
    << Call("gl::BindVertexArray", <<self.name>>),
       Call("gl::GetAttribLocation", <<program.name, name>>) >>
    \o IF pos < 0 THEN <<>>
       ELSE << Call("gl::EnableVertexAttribArray", <<AsGLuint(pos)>>),
               Call("gl::VertexAttribPointer",
                    <<AsGLuint(pos), elts, "gl::FLOAT", "gl::FALSE", stride, offset>>) >>

\* the API calls of Vao::enable_attrib; pos is the API's answer to
\* GetAttribLocation
enable_attrib_calls(self, program, name, elts, stride, offset, pos) ==
    << Call("gl::BindVertexArray", <<self.name>>),
       Call("gl::GetAttribLocation", <<program.name, name>>),
       Call("gl::EnableVertexAttribArray", <<AsGLuint(pos)>>),
       Call("gl::VertexAttribPointer",
            <<AsGLuint(pos), elts, "gl::FLOAT", "gl::FALSE", stride, offset>>) >>

\* Vao::enable_attrib
VaoEnableAttrib(self, program, name, elts, stride, offset, pos) ==
    /\ ~failed
    /\ self \in Live("Vao")
    /\ program \in Live("Program")
    /\ calls' = enable_attrib_calls(self, program, name, elts, stride, offset, pos)
    /\ bound' = Vao_enable_attrib_bound(self)
    /\ last' = [Op("Vao::enable_attrib", self.id, self.name, "()")
                  EXCEPT !.args = <<program.name, pos>>]
    /\ UNCHANGED <<ndebug, gl_objects, next_name, releases, wrappers, next_obj,
                   aliases, wrapped, failed>>

Firsts == {1}
Counts == {3}

\* Vao::draw binding its own vertex array before drawing
Vao_draw_binds_self(self) == Vao_activate_bound(self)

\* binding state after Vao::draw: no bind call is issued
Vao_draw_bound(self) == bound

\* Vao::draw
VaoDraw(self, primitive, first, count) ==
    /\ ~failed
    /\ self \in Live("Vao")
    /\ calls' = << Call("gl::DrawArrays", <<Primitive_to_glenum(primitive), first, count>>) >>
    /\ bound' = Vao_draw_bound(self)
    /\ last' = [Op("Vao::draw", self.id, self.name, "()")
                  EXCEPT !.args = <<primitive, first, count>>]
    /\ UNCHANGED <<ndebug, gl_objects, next_name, releases, wrappers,
                   next_obj, aliases, wrapped, failed>>

----------------------------------------------------------------------------
(* Destruction *)

DeleteFn(kind) ==
    CASE kind = "Shader"  -> "gl::DeleteShader"
      [] kind = "Program" -> "gl::DeleteProgram"
      [] kind = "Vbo"     -> "gl::DeleteBuffers"
      [] kind = "Vao"     -> "gl::DeleteVertexArrays"

ObjectKind(kind) ==
    CASE kind = "Shader"  -> "shader"
      [] kind = "Program" -> "program"
      [] kind = "Vbo"     -> "buffer"
      [] kind = "Vao"     -> "vertex_array"

\* the API calls of drop(&mut self)
drop_calls(self) ==
    IF self.kind \in {"Vbo", "Vao"}
    THEN << Call(DeleteFn(self.kind), <<1, self.name>>) >>
    ELSE << Call(DeleteFn(self.kind), <<self.name>>) >>

\* Drop for Shader / Program / Vbo / Vao: the owning scope ends, by return or
\* by unwinding after a failure
Drop(self) ==
    /\ self \in wrappers
    /\ calls' = drop_calls(self)
    /\ releases' = [releases EXCEPT ![self.name] = @ + Len(drop_calls(self))]
    /\ gl_objects' = Delete(ObjectKind(self.kind), self.name)
    /\ wrappers' = wrappers \ {self}
    /\ last' = Op("drop", self.id, self.name, "()")
    /\ UNCHANGED <<ndebug, next_name, bound, next_obj, aliases, wrapped, failed>>

----------------------------------------------------------------------------
(* The operations, with their inputs *)

\* the names a caller passes to Shader::from_name: the names the API has
\* handed out so far, and 0, which is never an object
DoShaderFromName ==
    \E name \in 0 .. next_name - 1, type_ \in ShaderType : ShaderFromName(name, type_)

DoShaderName ==
    \E self \in wrappers : ShaderName(self)

DoShaderCompile ==
    \E source \in Sources, type_ \in ShaderType, api_status \in BOOLEAN,
       api_len \in 0 .. MaxLogLen, utf8 \in BOOLEAN, crash \in BOOLEAN :
         ShaderCompile(source, type_, api_status, api_len, utf8, crash)

DoProgramLink ==
    \E shaders \in ShaderSlices, api_status \in BOOLEAN,
       api_len \in 0 .. MaxLogLen, utf8 \in BOOLEAN, crash \in BOOLEAN :
         ProgramLink(shaders, api_status, api_len, utf8, crash)

DoProgramActivate ==
    \E self \in wrappers : ProgramActivate(self)

DoProgramBindFrag ==
    \E self \in wrappers, color_number \in ColorNumbers, name \in FragNames :
         ProgramBindFrag(self, color_number, name)

DoVboFromData ==
    \E data_len \in 0 .. MaxData, elt_size \in EltSizes, usage \in VboUsage :
         VboFromData(data_len, elt_size, usage)

DoVboActivate ==
    \E self \in wrappers : VboActivate(self)

DoVaoActivate ==
    \E self \in wrappers : VaoActivate(self)

DoVaoEnableAttrib ==
    \E self \in wrappers, program \in wrappers, name \in AttribNames, elts \in Elts,
       stride \in Strides, offset \in Offsets, pos \in Locations :
         VaoEnableAttrib(self, program, name, elts, stride, offset, pos)

DoVaoDraw ==
    \E self \in wrappers, primitive \in Primitive, first \in Firsts, count \in Counts :
         VaoDraw(self, primitive, first, count)

DoDrop ==
    \E self \in wrappers : Drop(self)

\* every public operation and every destructor
Next ==
    \/ DoShaderFromName
    \/ DoShaderName
    \/ DoShaderCompile
    \/ DoProgramLink
    \/ DoProgramActivate
    \/ DoProgramBindFrag
    \/ DoVboFromData
    \/ DoVboActivate
    \/ VaoNew
    \/ DoVaoActivate
    \/ DoVaoEnableAttrib
    \/ DoVaoDraw
    \/ DoDrop

Spec == Init /\ [][Next]_vars

\* the operations that run the status / log protocol, and the destructors
NextLog ==
    \/ DoShaderCompile
    \/ DoProgramLink
    \/ DoDrop

SpecLog == Init /\ [][NextLog]_vars

\* the operations on programs, buffers and vertex arrays, and the destructors
NextBind ==
    \/ DoProgramLink
    \/ DoProgramActivate
    \/ DoProgramBindFrag
    \/ DoVboFromData
    \/ DoVboActivate
    \/ VaoNew
    \/ DoVaoActivate
    \/ DoVaoEnableAttrib
    \/ DoVaoDraw
    \/ DoDrop

SpecBind == Init /\ [][NextBind]_vars

\* the operations that construct wrappers, and the destructors
NextOwn ==
    \/ DoShaderFromName
    \/ DoShaderName
    \/ DoShaderCompile
    \/ DoProgramLink
    \/ DoVboFromData
    \/ VaoNew
    \/ DoDrop

SpecOwn == Init /\ [][NextOwn]_vars

\* Shader::compile of a vertex shader whose driver reports an empty log: on
\* success the name is owned by a Shader, on failure it is left without one
DoShaderCompileEmptyLog ==
    \E source \in Sources, api_status \in BOOLEAN :
        ShaderCompile(source, "VertexShader", api_status, 0, TRUE, FALSE)

\* Shader::from_name, the operations that make the shader and vertex array
\* objects it can be given, and the destructors
NextName ==
    \/ DoShaderFromName
    \/ DoShaderCompileEmptyLog
    \/ VaoNew
    \/ DoDrop

SpecName == Init /\ [][NextName]_vars

----------------------------------------------------------------------------
(* Claims *)

InfoLogFns == {"gl::GetShaderInfoLog", "gl::GetProgramInfoLog"}
DeleteFns  == {"gl::DeleteShader", "gl::DeleteProgram", "gl::DeleteBuffers",
               "gl::DeleteVertexArrays"}

\* the positions in `calls` of the calls to entry point f
CallsTo(f) == {i \in 1 .. Len(calls) : calls[i].fn = f}

Owners(n) == {w \in wrappers : w.name = n}

\* C1: the destruction of a wrapper issues exactly one release call, for its
\* own handle; no handle receives more than one release call; no handle that
\* was held by a wrapper is left unreleased once no wrapper holds it.
C1_ReleasedExactlyOnce ==
    /\ last.op = "drop" =>
         /\ Len(calls) = 1
         /\ calls[1].fn \in DeleteFns
         /\ calls[1].args[Len(calls[1].args)] = last.handle
    /\ \A n \in Names : releases[n] <= 1
    /\ \A n \in wrapped : Owners(n) = {} => releases[n] >= 1

\* C2: a Shader::compile that returned a failure has released the shader
\* handle it created.
C2_FailedCompileReleased ==
    (last.op = "Shader::compile" /\ last.result = "Err") =>
        (releases[last.handle] >= 1 /\ gl_objects[last.handle] = "deleted")

\* C3: a Program::link that returned a failure has released the program
\* handle it created.
C3_FailedLinkReleased ==
    (last.op = "Program::link" /\ last.result = "Err") =>
        (releases[last.handle] >= 1 /\ gl_objects[last.handle] = "deleted")

\* C4: each handle is owned by at most one live wrapper.
C4_ExclusiveOwner ==
    \A w1, w2 \in wrappers : w1.name = w2.name => w1 = w2

\* the most recent operation ran the status / log protocol
RanProtocol == last.op \in {"Shader::compile", "Program::link"}

\* C5: when the status query reports failure and the log length query
\* reports N > 1, the diagnostic returned has exactly N - 1 bytes.
C5_TextHasNMinus1Bytes ==
    (RanProtocol /\ ~last.status /\ last.loglen > 1 /\ last.result = "Err") =>
        last.textlen = last.loglen - 1

\* C6: when the status query reports failure and the log length query
\* reports exactly 1, the result is a failure with a text of zero bytes.
C6_TerminatorOnlyIsEmpty ==
    (RanProtocol /\ ~last.status /\ last.loglen = 1) =>
        (last.result = "Err" /\ last.textlen = 0)

\* C7: when the status query reports failure and the log length query
\* reports 0, no text retrieval call is issued and the result is a failure
\* carrying the empty text, not success.
C7_ZeroLengthNoRetrieval ==
    (RanProtocol /\ ~last.status /\ last.loglen = 0) =>
        /\ \A i \in 1 .. Len(calls) : calls[i].fn \notin InfoLogFns
        /\ last.result = "Err"
        /\ last.textlen = 0

\* C7 witness: a failed compile whose reported log length is 0 returned Err of the empty text
C7_Witness ==
    /\ last.op = "Shader::compile"
    /\ ~last.status /\ last.loglen = 0
    /\ last.result = "Err" /\ last.textlen = 0
    /\ CallsTo("gl::GetShaderiv") = {4, 5}

\* C8: Shader::compile returns a Shader owning the handle it created exactly
\* when the compile status query reports success, and then issues neither the
\* log length query nor the text retrieval call; in every other case, with
\* a log the API reports as valid text of any length, it returns a failure
\* value.
C8_OkIffStatus ==
    last.op = "Shader::compile" =>
        /\ last.result = "Ok" <=> last.status
        /\ last.status =>
             /\ Shader(last.self, last.handle, "VertexShader") \in wrappers
                  \/ Shader(last.self, last.handle, "FragmentShader") \in wrappers
             /\ CallsTo("gl::GetShaderiv") = {4}
             /\ CallsTo("gl::GetShaderInfoLog") = {}
        /\ (~last.status /\ last.utf8) => last.result = "Err"

\* C9: Shader::compile issues one create-shader, one submit-source and one
\* compile call, in that order, then the status query; Program::link issues
\* one create-program call, one attach call per Shader of the slice in slice
\* order, one link call, then the status query.
C9_CallOrder ==
    /\ last.op = "Shader::compile" =>
         /\ CallsTo("gl::CreateShader") = {1}
         /\ CallsTo("gl::ShaderSource") = {2}
         /\ CallsTo("gl::CompileShader") = {3}
         /\ calls[2].args[1] = last.handle
         /\ calls[3].args = <<last.handle>>
         /\ 4 \in CallsTo("gl::GetShaderiv")
         /\ calls[4].args = <<last.handle, "gl::COMPILE_STATUS">>
    /\ last.op = "Program::link" =>
         LET n == Len(last.shaders)
         IN  /\ CallsTo("gl::CreateProgram") = {1}
             /\ CallsTo("gl::AttachShader") = 2 .. n + 1
             /\ \A i \in 1 .. n : calls[i + 1].args = <<last.handle, last.shaders[i]>>
             /\ CallsTo("gl::LinkProgram") = {n + 2}
             /\ calls[n + 2].args = <<last.handle>>
             /\ n + 3 \in CallsTo("gl::GetProgramiv")
             /\ calls[n + 3].args = <<last.handle, "gl::LINK_STATUS">>

\* C9 witness: a link over a slice of two Shaders with different names
C9_Witness ==
    /\ last.op = "Program::link"
    /\ Len(last.shaders) = 2
    /\ last.shaders[1] # last.shaders[2]
    /\ Len(calls) >= 5
    /\ calls[2].args = <<last.handle, last.shaders[1]>>
    /\ calls[3].args = <<last.handle, last.shaders[2]>>

\* C10: an operation that binds a target leaves that target bound to its own
\* handle and the other two targets as they were; every other operation
\* leaves all three bindings as they were.  Nothing restores the binding that
\* was current before the operation ran.
C10_Bindings ==
    /\ last.op = "Program::activate" =>
         bound = [last.before EXCEPT !.program = last.handle]
    /\ last.op \in {"Vbo::activate", "Vbo::from_data"} =>
         bound = [last.before EXCEPT !.array_buffer = last.handle]
    /\ last.op \in {"Vao::activate", "Vao::enable_attrib"} =>
         bound = [last.before EXCEPT !.vertex_array = last.handle]
    /\ last.op \notin {"Program::activate", "Vbo::activate", "Vbo::from_data",
                       "Vao::activate", "Vao::enable_attrib"} =>
         bound = last.before

\* C10 witness: enable_attrib ran while another vertex array was bound
C10_Witness ==
    /\ last.op = "Vao::enable_attrib"
    /\ last.before.vertex_array \notin {0, last.handle}
    /\ bound.vertex_array = last.handle
    /\ bound.program = last.before.program

\* C11: Vao::enable_attrib with a name whose location lookup returns -1
\* raises nothing: it still issues the enable-attribute-array call and the
\* layout-description call, both with -1 converted to an unsigned index, and
\* returns normally.
C11_UnresolvedNameIgnored ==
    (last.op = "Vao::enable_attrib" /\ last.args[2] = -1) =>
        /\ last.result = "()" /\ ~failed
        /\ Len(calls) = 4
        /\ calls[2].fn = "gl::GetAttribLocation"
        /\ calls[2].args[1] = last.args[1]
        /\ calls[3].fn = "gl::EnableVertexAttribArray"
        /\ calls[3].args = <<Modulus - 1>>
        /\ calls[4].fn = "gl::VertexAttribPointer"
        /\ calls[4].args[1] = Modulus - 1

\* C11 witness: enable_attrib ran with a lookup that returned -1
C11_Witness ==
    /\ last.op = "Vao::enable_attrib" /\ last.args[2] = -1
    /\ CallsTo("gl::EnableVertexAttribArray") = {3}
    /\ CallsTo("gl::VertexAttribPointer") = {4}
    /\ ~failed

\* C12: Vbo::from_data succeeds for every slice and usage hint, the empty
\* slice included: it generates one new buffer name, binds it, issues one
\* upload call whose byte size is element count times element size, reads
\* back no status, and returns a Vbo owning that name.
C12_FromDataAlwaysOk ==
    last.op = "Vbo::from_data" =>
        /\ last.result = "Ok" /\ ~failed
        /\ Len(calls) = 3
        /\ calls[1].fn = "gl::GenBuffers"
        /\ calls[2] = Call("gl::BindBuffer", <<"gl::ARRAY_BUFFER", last.handle>>)
        /\ calls[3].fn = "gl::BufferData"
        /\ calls[3].args[2] = last.args[1] * last.args[2]
        /\ last.handle = next_name - 1
        /\ gl_objects[last.handle] = "buffer"
        /\ releases[last.handle] = 0
        /\ Owners(last.handle) = {Vbo(last.self, last.handle)}

\* C12 witness: from_data ran on the empty slice
C12_Witness ==
    /\ last.op = "Vbo::from_data" /\ last.args[1] = 0
    /\ last.result = "Ok"
    /\ calls[3].args[2] = 0
    /\ Vbo(last.self, last.handle) \in wrappers

\* C13: the maximum length get_info_log passes to the text retrieval call
\* never exceeds the capacity of the vector allocated for it, so the API
\* never writes past the end of the buffer, for every reported length N >= 1.
C13_RetrievalFitsBuffer ==
    (RanProtocol /\ ~last.status /\ last.loglen >= 1) =>
        /\ \A i \in 1 .. Len(calls) :
             calls[i].fn \in InfoLogFns => calls[i].args[2] <= last.buf.cap
        /\ last.buf.wrote <= last.buf.cap

\* what C14 says of one step
C14_Step ==
    /\ last'.op = "Program::link" =>
         /\ \A i \in 1 .. Len(calls') : calls'[i].fn \notin DeleteFns
         /\ releases' = releases
         /\ \A i \in 1 .. Len(last'.shaders) :
              /\ Shader(last'.args[i], last'.shaders[i], "VertexShader") \in wrappers
                   \/ Shader(last'.args[i], last'.shaders[i], "FragmentShader") \in wrappers
         /\ wrappers \subseteq wrappers'
    /\ last'.op = "drop" =>
         \E w \in wrappers :
             /\ w.id = last'.self
             /\ wrappers' = wrappers \ {w}
             /\ Len(calls') = 1
             /\ calls'[1].fn = DeleteFn(w.kind)
             /\ calls'[1].args[Len(calls'[1].args)] = w.name
             /\ gl_objects[w.name] = ObjectKind(w.kind)
             /\ releases' = [releases EXCEPT ![w.name] = @ + 1]

\* C14: Program::link only borrows its Shaders: it issues no release call and
\* every Shader of the slice is still live when it returns, with success or
\* failure; dropping a Shader afterwards releases that shader's handle only,
\* dropping the Program releases the program's handle only.
C14_LinkBorrows == [][C14_Step]_vars

\* C14 witness: a Program was linked from two Shaders, which are still live
\* and unreleased
C14_Witness ==
    /\ last.op = "Program::link" /\ last.result = "Ok"
    /\ Len(last.shaders) = 2
    /\ \A i \in 1 .. 2 : Owners(last.shaders[i]) # {} /\ releases[last.shaders[i]] = 0
    /\ Owners(last.handle) = {Program(last.self, last.handle)}

\* C15: Vao::draw issues exactly one draw call, with the given primitive,
\* first and count, and changes no binding: it does not bind its own vertex
\* array, so the draw uses whatever is bound at that moment.
C15_DrawBindsNothing ==
    last.op = "Vao::draw" =>
        /\ Len(calls) = 1
        /\ calls[1].fn = "gl::DrawArrays"
        /\ calls[1].args = <<Primitive_to_glenum(last.args[1]), last.args[2], last.args[3]>>
        /\ bound = last.before

\* C15 witness: draw ran on one Vao while another vertex array was bound
C15_Witness ==
    /\ last.op = "Vao::draw"
    /\ bound.vertex_array \notin {0, last.handle}
    /\ CallsTo("gl::DrawArrays") = {1}

\* what C16 says of one step
C16_Step ==
    (last'.op = "Shader::from_name" /\ ~ndebug) =>
        LET name == last'.handle
        IN  /\ next_name' = next_name
            /\ gl_objects' = gl_objects
            /\ releases' = releases
            /\ IF name \in DOMAIN gl_objects /\ gl_objects[name] = "shader"
               THEN /\ last'.result = "Shader" /\ ~failed'
                    /\ \E type_ \in ShaderType :
                         /\ Shader(last'.self, name, type_) \notin wrappers
                         /\ wrappers' = wrappers \cup {Shader(last'.self, name, type_)}
               ELSE /\ last'.result = "Fatal" /\ failed'
                    /\ wrappers' = wrappers
                    /\ wrapped' = wrapped

\* C16: in a build with the debug check, Shader::from_name of a name that is
\* not a shader object ends in a fatal failure and constructs no Shader, so
\* no release call follows from it (release calls are issued only for names
\* a wrapper has held); of a name that is a shader object it returns a Shader
\* of exactly that name and creates no new name.
C16_FromNameChecked ==
    /\ [](\A n \in Names : n \notin wrapped => releases[n] = 0)
    /\ [][C16_Step]_vars

\* C16 witness: from_name was given the name of a vertex array object and failed
C16_Witness ==
    /\ ~ndebug
    /\ last.op = "Shader::from_name" /\ last.result = "Fatal"
    /\ last.handle \in DOMAIN gl_objects /\ gl_objects[last.handle] = "vertex_array"
    /\ \A w \in Owners(last.handle) : w.kind = "Vao"
    /\ failed

====
